---------------------------- MODULE Spec2Model ----------------------------
(***************************************************************************)
(* Model of api/moderate.js: the moderation request handler, its           *)
(* configuration loaded from the environment, the cached classifier        *)
(* promise (getModel) and the leetspeak normalizer (normalize).            *)
(*                                                                         *)
(* Strings are sequences of UTF-16 code units (integers), so that the      *)
(* regular expressions of the source become tests on code units.          *)
(* Numbers are records [nan, v]: v counts units of 10^-5, nan marks NaN.   *)
(***************************************************************************)
EXTENDS Integers, Sequences, FiniteSets, TLC

(***************************************************************************)
(* Bounds of the model.                                                    *)
(***************************************************************************)
\* number of handler invocations that can be in flight at the same time
MaxInFlight == 2
\* longest input string of the normalizer specification
MaxLen == 3

(***************************************************************************)
(* JavaScript values: strings, undefined, null, numbers.                   *)
(***************************************************************************)
Scale == 10 ^ 5

Num(n) == [nan |-> FALSE, v |-> n]
NaN == [nan |-> TRUE, v |-> 0]

\* a >= b on JS numbers: every comparison with NaN is false
GEq(a, b) == ~a.nan /\ ~b.nan /\ a.v >= b.v

Str(s) == [t |-> "string", s |-> s]
Undefined == [t |-> "undefined", s |-> <<>>]
Null == [t |-> "null", s |-> <<>>]
\* a JSON number in a place where a string is expected (typeof "number")
NumberValue(n) == [t |-> "number", s |-> <<n>>]

\* ToBoolean: undefined, null, "" and 0 are falsy
Truthy(x) ==
  CASE x.t \in {"undefined", "null"} -> FALSE
    [] x.t = "string" -> x.s # <<>>
    [] OTHER -> x.s # <<0>>

\* a || b
OrElse(a, b) == IF Truthy(a) THEN a ELSE b

\* destructuring default  { x = d } : d replaces undefined only
Default(x, d) == IF x.t = "undefined" THEN d ELSE x

Digits == 48 .. 57

RECURSIVE DecimalString(_)
\* decimal digits of a natural number
DecimalString(n) ==
  IF n < 10 THEN <<48 + n>> ELSE Append(DecimalString(n \div 10), 48 + (n % 10))

\* template literal `${x}` : the ToString conversion
JSToString(x) ==
  CASE x.t = "string" -> x.s
    [] x.t = "undefined" -> <<117, 110, 100, 101, 102, 105, 110, 101, 100>>
    [] x.t = "null" -> <<110, 117, 108, 108>>
    [] OTHER -> DecimalString(x.s[1])

\* WhiteSpace and LineTerminator code units: the class \s, and what trim() strips
WhiteSpace ==
  {9, 10, 11, 12, 13, 32, 160, 5760, 8232, 8233, 8239, 8287, 12288, 65279}
    \cup (8192 .. 8202)

RECURSIVE TrimStart(_)
TrimStart(s) ==
  IF s # <<>> /\ Head(s) \in WhiteSpace THEN TrimStart(Tail(s)) ELSE s

RECURSIVE TrimEnd(_)
TrimEnd(s) ==
  IF s # <<>> /\ s[Len(s)] \in WhiteSpace
    THEN TrimEnd(SubSeq(s, 1, Len(s) - 1))
    ELSE s

\* String.prototype.trim
Trim(s) == TrimEnd(TrimStart(s))

\* String.prototype.toLowerCase on the code units the model uses: A-Z map to
\* a-z, every other unit below U+00C0 is left alone
LowerUnit(c) == IF c \in 65 .. 90 THEN c + 32 ELSE c

ToLowerCase(s) == [k \in 1 .. Len(s) |-> LowerUnit(s[k])]

\* s.replace(/[class]/g, to) for a one-unit replacement
ReplaceClass(s, class, to) ==
  [k \in 1 .. Len(s) |-> IF s[k] \in class THEN to ELSE s[k]]

RECURSIVE SkipSpace(_)
\* the rest of s after its leading run of whitespace
SkipSpace(s) ==
  IF s # <<>> /\ Head(s) \in WhiteSpace THEN SkipSpace(Tail(s)) ELSE s

RECURSIVE CollapseSpace(_)
\* s.replace(/\s{2,}/g, " "): every maximal run of two or more whitespace
\* units becomes one space; a lone whitespace unit is kept as it is
CollapseSpace(s) ==
  IF s = <<>> THEN <<>>
  ELSE IF Head(s) \in WhiteSpace /\ Len(s) >= 2 /\ s[2] \in WhiteSpace
    THEN <<32>> \o CollapseSpace(SkipSpace(s))
    ELSE <<Head(s)>> \o CollapseSpace(Tail(s))

\* s.includes(sub)
Includes(s, sub) ==
  \E k \in 0 .. Len(s) - Len(sub) : SubSeq(s, k + 1, k + Len(sub)) = sub

RECURSIVE Split(_, _)
\* s.split(sep) for a one-unit separator
Split(s, sep) ==
  IF \A k \in 1 .. Len(s) : s[k] # sep THEN <<s>>
  ELSE LET k == CHOOSE i \in 1 .. Len(s) :
                  s[i] = sep /\ \A j \in 1 .. i - 1 : s[j] # sep
       IN <<SubSeq(s, 1, k - 1)>> \o Split(SubSeq(s, k + 1, Len(s)), sep)

RECURSIVE FilterNonEmpty(_)
\* list.filter(Boolean) on a list of strings
FilterNonEmpty(list) ==
  IF list = <<>> THEN <<>>
  ELSE IF Head(list) = <<>> THEN FilterNonEmpty(Tail(list))
  ELSE <<Head(list)>> \o FilterNonEmpty(Tail(list))

\* value.split(",").map(s => s.trim()).filter(Boolean)
ParseList(s) ==
  LET parts == Split(s, 44)
  IN FilterNonEmpty([k \in 1 .. Len(parts) |-> Trim(parts[k])])

RECURSIVE DigitsValue(_)
DigitsValue(s) ==
  IF s = <<>> THEN 0 ELSE 10 * DigitsValue(SubSeq(s, 1, Len(s) - 1)) + (s[Len(s)] - 48)

\* Number(string): surrounding whitespace is dropped, "" is 0, a decimal
\* literal  digits [. digits]  is its value (kept to five decimal places),
\* anything else is NaN.  Signs, exponents, hex and Infinity are not among
\* the strings the model draws.
StringToNumber(str) ==
  LET s == Trim(str)
      dots == {k \in 1 .. Len(s) : s[k] = 46}
      wellFormed ==
        /\ \A k \in 1 .. Len(s) : s[k] \in Digits \cup {46}
        /\ Cardinality(dots) <= 1
        /\ \E k \in 1 .. Len(s) : s[k] \in Digits
      dot == IF dots = {} THEN Len(s) + 1 ELSE CHOOSE k \in dots : TRUE
      int == SubSeq(s, 1, dot - 1)
      frac == SubSeq(s, dot + 1, Len(s))
      frac5 == [k \in 1 .. 5 |-> IF k <= Len(frac) THEN frac[k] ELSE 48]
  IN IF s = <<>> THEN Num(0)
     ELSE IF ~wellFormed THEN NaN
     ELSE Num(DigitsValue(int) * Scale + DigitsValue(frac5))

\* Number(x.toFixed(4)): the nearest multiple of 10^-4, ties upwards
ToFixed4(x) == Num(((x.v + 5) \div 10) * 10)

(***************************************************************************)
(* Leetspeak / obfuscation normalizer.                                     *)
(***************************************************************************)
\* ! (33), inverted ! (161), 1, |, i
LeetI == {33, 161, 49, 124, 105}
\* @ 4
LeetA == {64, 52}
\* $ 5
LeetS == {36, 53}
\* the units /[^a-z0-9\s@]/ leaves alone
Kept == (97 .. 122) \cup Digits \cup WhiteSpace \cup {64}

StripOther(s) == [k \in 1 .. Len(s) |-> IF s[k] \in Kept THEN s[k] ELSE 32]

\* the same steps with trim() applied to the raw text instead of last
normalizeTrimFirst(text) ==
  LET s0 == ToLowerCase(Trim(text))
      s1 == ReplaceClass(s0, LeetI, 105)
      s2 == ReplaceClass(s1, LeetA, 97)
      s3 == ReplaceClass(s2, LeetS, 115)
      s4 == ReplaceClass(s3, {48}, 111)
      s5 == ReplaceClass(s4, {51}, 101)
      s6 == ReplaceClass(s5, {55}, 116)
  IN CollapseSpace(StripOther(s6))

normalize(text) ==
  LET s0 == ToLowerCase(text)
      s1 == ReplaceClass(s0, LeetI, 105)
      s2 == ReplaceClass(s1, LeetA, 97)
      s3 == ReplaceClass(s2, LeetS, 115)
      s4 == ReplaceClass(s3, {48}, 111)
      s5 == ReplaceClass(s4, {51}, 101)
      s6 == ReplaceClass(s5, {55}, 116)
      s7 == StripOther(s6)
      s8 == CollapseSpace(s7)
  IN Trim(s8)


(***************************************************************************)
(* String literals of the source and of the sampled inputs.                *)
(***************************************************************************)
\* "0.85"
DefaultThreshold == <<48, 46, 56, 53>>
\* "identity_attack,insult,obscene,sexual_explicit,threat,severe_toxicity"
DefaultLabels ==
  <<105, 100, 101, 110, 116, 105, 116, 121, 95, 97, 116, 116, 97, 99, 107, 44,
    105, 110, 115, 117, 108, 116, 44, 111, 98, 115, 99, 101, 110, 101, 44,
    115, 101, 120, 117, 97, 108, 95, 101, 120, 112, 108, 105, 99, 105, 116, 44,
    116, 104, 114, 101, 97, 116, 44, 115, 101, 118, 101, 114, 101, 95, 116,
    111, 120, 105, 99, 105, 116, 121>>
\* "*"
DefaultOrigin == <<42>>

\* "insult"
Insult == <<105, 110, 115, 117, 108, 116>>
\* "threat"
Threat == <<116, 104, 114, 101, 97, 116>>
\* "idiot"
Idiot == <<105, 100, 105, 111, 116>>
\* "You are such an idiot!!!"
ScenarioA ==
  <<89, 111, 117, 32, 97, 114, 101, 32, 115, 117, 99, 104, 32, 97, 110, 32,
    105, 100, 105, 111, 116, 33, 33, 33>>
\* "you 1d10t"
LeetIdiot == <<121, 111, 117, 32, 49, 100, 49, 48, 116>>
\* "MyBot-1"
MyBot1 == <<77, 121, 66, 111, 116, 45, 49>>
\* "mybot"
MyBot == <<109, 121, 98, 111, 116>>
\* "alice"
Alice == <<97, 108, 105, 99, 101>>

(***************************************************************************)
(* Sampled environments and requests.                                      *)
(***************************************************************************)
\* TOXICITY_THRESHOLD: unset, "abc", "0.5"
ThresholdSamples == {Undefined, Str(<<97, 98, 99>>), Str(<<48, 46, 53>>)}
\* TOXICITY_LABELS: unset, " threat , ,"
LabelsSamples == {Undefined, Str(<<32, 116, 104, 114, 101, 97, 116, 32, 44, 32, 44>>)}
\* FOUL_CUSTOM_WORDS: unset, " idiot, "
CustomWordsSamples == {Undefined, Str(<<32, 105, 100, 105, 111, 116, 44, 32>>)}
\* CORS_ALLOW_ORIGIN: unset
OriginSamples == {Undefined}

\* text: missing, null, "", a number
InvalidTextSamples == {Undefined, Null, Str(<<>>), NumberValue(5)}
\* text: "You are such an idiot!!!", "you 1d10t"
ValidTextSamples == {Str(ScenarioA), Str(LeetIdiot)}

\* <<fromUser, botName>>: the bot itself, another user
UserSamples == {<<Str(MyBot1), Str(MyBot)>>, <<Str(Alice), Str(MyBot)>>}
\* <<fromUser, botName>>: both missing, the bot itself
UserSamplesInvalid == {<<Undefined, Undefined>>, <<Str(MyBot1), Str(MyBot)>>}

NoBody ==
  [present |-> FALSE, text |-> Undefined, fromUser |-> Undefined, botName |-> Undefined]

BodySamples ==
  {[present |-> TRUE, text |-> t, fromUser |-> u[1], botName |-> u[2]] :
     t \in ValidTextSamples, u \in UserSamples}
  \cup
  {[present |-> TRUE, text |-> t, fromUser |-> u[1], botName |-> u[2]] :
     t \in InvalidTextSamples, u \in UserSamplesInvalid}
  \cup {NoBody}

RequestSamples ==
  [method : {"POST"}, body : BodySamples] \cup [method : {"OPTIONS", "GET"}, body : {NoBody}]

\* toxic-class probabilities the classifier may return, in units of 10^-5
ProbSamples == {84996, 85000}

\* one prediction p of model.classify: has is FALSE when
\* p.results?.[0]?.probabilities?.[1] is undefined
PredSamples(label) ==
  {[label |-> label, has |-> FALSE, prob |-> 0]} \cup
  {[label |-> label, has |-> TRUE, prob |-> x] : x \in ProbSamples}

\* the lists of predictions the classifier may return for one input
PredsSamples ==
  {<<>>} \cup {<<p>> : p \in PredSamples(Insult) \cup PredSamples(Threat)}
    \cup {<<p, q>> : p \in PredSamples(Insult), q \in PredSamples(Threat)}

(***************************************************************************)
(* State.                                                                  *)
(***************************************************************************)
VARIABLES
  env,           \* process.env
  modelPromise,  \* 0 while undefined, else the index in promises of the cached promise
  promises,      \* the state of the promise of every toxicity.load call made
  inflight,      \* the handler invocations suspended at an await
  res,           \* the last response sent, with the request it answers
  THRESH,        \* the configured threshold
  LABELS,        \* the configured label list
  CORS_ALLOW_ORIGIN,
  CUSTOM_WORDS,
  wordList,      \* the word list of leo-profanity
  nin,           \* normalizer specification: the input
  nout,          \* normalizer specification: normalize applied once
  nout2,         \* normalizer specification: normalize applied twice
  npc            \* normalizer specification: how often normalize was applied

configVars == <<env, THRESH, LABELS, CORS_ALLOW_ORIGIN, CUSTOM_WORDS, wordList>>
normVars == <<nin, nout, nout2, npc>>
handlerVars == <<modelPromise, promises, inflight, res>>
vars == <<configVars, handlerVars, normVars>>

(***************************************************************************)
(* Module load: the configuration is computed from the environment e, and  *)
(* leo-profanity is prepared.                                              *)
(***************************************************************************)
\* Number(process.env.TOXICITY_THRESHOLD || "0.85")
LoadTHRESH(e) == StringToNumber(OrElse(e.TOXICITY_THRESHOLD, Str(DefaultThreshold)).s)

\* (process.env.TOXICITY_LABELS || "identity_attack,...").split(",").map(trim).filter(Boolean)
LoadLABELS(e) == ParseList(OrElse(e.TOXICITY_LABELS, Str(DefaultLabels)).s)

\* process.env.CORS_ALLOW_ORIGIN || "*"
LoadORIGIN(e) == OrElse(e.CORS_ALLOW_ORIGIN, Str(DefaultOrigin)).s

\* (process.env.FOUL_CUSTOM_WORDS || "").split(",").map(trim).filter(Boolean)
LoadCUSTOM_WORDS(e) == ParseList(OrElse(e.FOUL_CUSTOM_WORDS, Str(<<>>)).s)

\* the base dictionary of leo-profanity is external: "darn" stands for its entries
BaseDictionary == {<<100, 97, 114, 110>>}

\* leo.clearList(); leo.loadDictionary(); if (CUSTOM_WORDS.length) leo.add(CUSTOM_WORDS)
LoadWordList(custom) ==
  IF Len(custom) # 0
    THEN BaseDictionary \cup {custom[k] : k \in 1 .. Len(custom)}
    ELSE BaseDictionary

\* list.includes(x)
ListIncludes(list, x) == \E k \in 1 .. Len(list) : list[k] = x

RECURSIVE WordsOf(_)
\* the maximal whitespace-free substrings of s
WordsOf(s) ==
  LET t == TrimStart(s)
      stops == {k \in 1 .. Len(t) : t[k] \in WhiteSpace}
      n == IF stops = {} THEN Len(t) + 1
           ELSE CHOOSE k \in stops : \A j \in stops : k <= j
  IN IF t = <<>> THEN {}
     ELSE {SubSeq(t, 1, n - 1)} \cup WordsOf(SubSeq(t, n, Len(t)))

\* leo.check(str): whether a whole whitespace-separated word of str is in
\* the word list
leoCheck(str) == str # <<>> /\ WordsOf(str) \cap wordList # {}

(***************************************************************************)
(* getModel: the classifier promise cached between invocations.            *)
(***************************************************************************)
\* toxicity.load(THRESH, LABELS) on every call, the cache never consulted
getModelNoCache(mp, ps) ==
  [modelPromise |-> Len(ps) + 1, promises |-> Append(ps, "pending")]

\* toxicity.load again when the cached promise was rejected
getModelRetry(mp, ps) ==
  IF mp = 0 \/ ps[mp] = "rejected"
    THEN [modelPromise |-> Len(ps) + 1, promises |-> Append(ps, "pending")]
    ELSE [modelPromise |-> mp, promises |-> ps]

\* the values of modelPromise and promises after a call of getModel();
\* the call returns the promise with index modelPromise
getModel(mp, ps) ==
  IF mp = 0
    THEN [modelPromise |-> Len(ps) + 1, promises |-> Append(ps, "pending")]
    ELSE [modelPromise |-> mp, promises |-> ps]

(***************************************************************************)
(* The handler.                                                            *)
(***************************************************************************)
\* setCors(res)
setCors ==
  [AccessControlAllowOrigin |-> CORS_ALLOW_ORIGIN,
   AccessControlAllowMethods |-> "POST,OPTIONS",
   AccessControlAllowHeaders |-> "Content-Type, Authorization"]

\* const { text = "", fromUser = "", botName = "" } = req.body || {}
Destructure(body) ==
  [text |-> Default(body.text, Str(<<>>)),
   fromUser |-> Default(body.fromUser, Str(<<>>)),
   botName |-> Default(body.botName, Str(<<>>))]

\* the test on typeof alone
textRequiredTypeOnly(text) == text.t # "string"

\* !text || typeof text !== "string"
textRequired(text) == ~Truthy(text) \/ text.t # "string"

\* includes() on the strings as given, without toLowerCase()
selfMessageCaseSensitive(fromUser, botName) ==
  /\ Truthy(botName)
  /\ Truthy(fromUser)
  /\ Includes(JSToString(fromUser), JSToString(botName))

\* botName && fromUser && `${fromUser}`.toLowerCase().includes(`${botName}`.toLowerCase())
selfMessage(fromUser, botName) ==
  /\ Truthy(botName)
  /\ Truthy(fromUser)
  /\ Includes(ToLowerCase(JSToString(fromUser)), ToLowerCase(JSToString(botName)))

\* p.results?.[0]?.probabilities?.[1] ?? 0
toxicScore(p) == IF p.has THEN Num(p.prob) ELSE Num(0)

\* the comparison with > in place of >=
HitStrict(label, score) ==
  ListIncludes(LABELS, label) /\ ~score.nan /\ ~THRESH.nan /\ score.v > THRESH.v

\* LABELS.includes(p.label) && score >= THRESH
Hit(label, score) == ListIncludes(LABELS, label) /\ GEq(score, THRESH)

RECURSIVE Scan(_, _, _)
\* for (const p of preds) { ... } : the score map and toxicHit after the loop
Scan(preds, scores, toxicHit) ==
  IF preds = <<>> THEN [scores |-> scores, toxicHit |-> toxicHit]
  ELSE LET p == Head(preds)
           score == toxicScore(p)
           next == [l \in DOMAIN scores \cup {p.label} |->
                      IF l = p.label THEN ToFixed4(score) ELSE scores[l]]
       IN Scan(Tail(preds), next, toxicHit \/ Hit(p.label, score))

\* the catch block passing err.message on to the caller
CaughtWithDetail(err) ==
  [status |-> 500, body |-> [error |-> "moderation_failed", detail |-> err]]

\* catch (err) { console.error(...); return res.status(500).json({ error: "moderation_failed" }) }
Caught(err) ==
  [status |-> 500, body |-> [error |-> "moderation_failed"]]

\* res.json({ foul, input, norm, reasons }) after a successful classify
Verdict(text, norm, lexiconProfane, preds) ==
  LET scan == Scan(preds, <<>>, FALSE)
      foul == lexiconProfane \/ scan.toxicHit
  IN [status |-> 200,
      body |-> [foul |-> foul,
                input |-> text,
                norm |-> norm,
                reasons |-> [lexiconProfanity |-> lexiconProfane,
                             toxicityScores |-> scan.scores,
                             threshold |-> THRESH,
                             labels |-> LABELS]]]

Idle ==
  [pc |-> "idle", req |-> [method |-> "POST", body |-> NoBody], norm |-> <<>>,
   lexiconProfane |-> FALSE, promise |-> 0, model |-> 0]

\* what an invocation called before it answered
NoCalls == [leoCheck |-> 0, getModel |-> 0, classify |-> 0, outcome |-> "none"]

NoResponse ==
  [req |-> [method |-> "POST", body |-> NoBody], headers |-> <<>>, status |-> 0,
   body |-> <<>>, calls |-> NoCalls, preds |-> <<>>]

\* the response r to request req, after the calls the invocation made
Sent(req, r, calls, preds) ==
  [req |-> req, headers |-> setCors, status |-> r.status, body |-> r.body,
   calls |-> calls, preds |-> preds]

Slots == 1 .. MaxInFlight

\* the module has been loaded under the environment e
Loaded(e) ==
  /\ env = e
  /\ THRESH = LoadTHRESH(e)
  /\ LABELS = LoadLABELS(e)
  /\ CORS_ALLOW_ORIGIN = LoadORIGIN(e)
  /\ CUSTOM_WORDS = LoadCUSTOM_WORDS(e)
  /\ wordList = LoadWordList(LoadCUSTOM_WORDS(e))

Init ==
  /\ \E e \in [TOXICITY_THRESHOLD : ThresholdSamples,
                TOXICITY_LABELS : LabelsSamples,
                FOUL_CUSTOM_WORDS : CustomWordsSamples,
                CORS_ALLOW_ORIGIN : OriginSamples] : Loaded(e)
  /\ modelPromise = 0
  /\ promises = <<>>
  /\ inflight = [i \in Slots |-> Idle]
  /\ res = NoResponse
  /\ nin = <<>>
  /\ nout = <<>>
  /\ nout2 = <<>>
  /\ npc = 0

\* handler(req, res) from its entry to its first await or to its response,
\* as invocation i (a new invocation takes the lowest free slot)
Request(i, req) ==
  /\ inflight[i].pc = "idle"
  /\ \A j \in 1 .. i - 1 : inflight[j].pc # "idle"
  /\ UNCHANGED <<configVars, normVars>>
  /\ IF req.method = "OPTIONS" THEN
       /\ res' = Sent(req, [status |-> 204, body |-> <<>>], NoCalls, <<>>)
       /\ UNCHANGED <<modelPromise, promises, inflight>>
     ELSE IF req.method # "POST" THEN
       /\ res' = Sent(req, [status |-> 405, body |-> [error |-> "method_not_allowed"]],
                      NoCalls, <<>>)
       /\ UNCHANGED <<modelPromise, promises, inflight>>
     ELSE
       LET b == Destructure(req.body) IN
       IF textRequired(b.text) THEN
         /\ res' = Sent(req, [status |-> 400, body |-> [error |-> "text_required"]],
                        NoCalls, <<>>)
         /\ UNCHANGED <<modelPromise, promises, inflight>>
       ELSE IF selfMessage(b.fromUser, b.botName) THEN
         /\ res' = Sent(req,
                        [status |-> 200,
                         body |-> [foul |-> FALSE, skipped |-> TRUE,
                                   reason |-> "self_message"]],
                        NoCalls, <<>>)
         /\ UNCHANGED <<modelPromise, promises, inflight>>
       ELSE
         LET norm == normalize(b.text.s)
             lexiconProfane == leoCheck(norm)
             got == getModel(modelPromise, promises)
         IN /\ modelPromise' = got.modelPromise
            /\ promises' = got.promises
            /\ inflight' = [inflight EXCEPT ![i] =
                              [pc |-> "awaitModel", req |-> req, norm |-> norm,
                               lexiconProfane |-> lexiconProfane,
                               promise |-> got.modelPromise, model |-> 0]]
            /\ UNCHANGED res

\* toxicity.load settles: the promise p is fulfilled with the classifier
LoadFulfilled(p) ==
  /\ p \in 1 .. Len(promises)
  /\ promises[p] = "pending"
  /\ promises' = [promises EXCEPT ![p] = "fulfilled"]
  /\ UNCHANGED <<configVars, modelPromise, inflight, res, normVars>>

\* toxicity.load settles: the promise p is rejected
LoadRejected(p) ==
  /\ p \in 1 .. Len(promises)
  /\ promises[p] = "pending"
  /\ promises' = [promises EXCEPT ![p] = "rejected"]
  /\ UNCHANGED <<configVars, modelPromise, inflight, res, normVars>>

\* const model = await getModel() resumes with the classifier and calls
\* model.classify([norm])
ModelReady(i) ==
  /\ inflight[i].pc = "awaitModel"
  /\ promises[inflight[i].promise] = "fulfilled"
  /\ inflight' = [inflight EXCEPT ![i].pc = "awaitClassify",
                                  ![i].model = inflight[i].promise]
  /\ UNCHANGED <<configVars, modelPromise, promises, res, normVars>>

\* await getModel() throws: the catch block answers
ModelFailed(i) ==
  /\ inflight[i].pc = "awaitModel"
  /\ promises[inflight[i].promise] = "rejected"
  /\ res' = Sent(inflight[i].req, Caught("load failed"),
                 [leoCheck |-> 1, getModel |-> 1, classify |-> 0,
                  outcome |-> "loadFailed"], <<>>)
  /\ inflight' = [inflight EXCEPT ![i] = Idle]
  /\ UNCHANGED <<configVars, modelPromise, promises, normVars>>

\* await model.classify([norm]) resumes with preds: the rest of the handler
Classified(i, preds) ==
  /\ inflight[i].pc = "awaitClassify"
  /\ res' = Sent(inflight[i].req,
                 Verdict(Destructure(inflight[i].req.body).text.s, inflight[i].norm,
                         inflight[i].lexiconProfane, preds),
                 [leoCheck |-> 1, getModel |-> 1, classify |-> 1,
                  outcome |-> "classified"], preds)
  /\ inflight' = [inflight EXCEPT ![i] = Idle]
  /\ UNCHANGED <<configVars, modelPromise, promises, normVars>>

\* await model.classify([norm]) throws: the catch block answers
ClassifyFailed(i) ==
  /\ inflight[i].pc = "awaitClassify"
  /\ res' = Sent(inflight[i].req, Caught("classify failed"),
                 [leoCheck |-> 1, getModel |-> 1, classify |-> 1,
                  outcome |-> "classifyFailed"], <<>>)
  /\ inflight' = [inflight EXCEPT ![i] = Idle]
  /\ UNCHANGED <<configVars, modelPromise, promises, normVars>>

Next ==
  \/ \E i \in Slots, req \in RequestSamples : Request(i, req)
  \/ \E p \in 1 .. Len(promises) : LoadFulfilled(p)
  \/ \E p \in 1 .. Len(promises) : LoadRejected(p)
  \/ \E i \in Slots : ModelReady(i)
  \/ \E i \in Slots : ModelFailed(i)
  \/ \E i \in Slots, preds \in PredsSamples : Classified(i, preds)
  \/ \E i \in Slots : ClassifyFailed(i)

Spec == Init /\ [][Next]_vars

(***************************************************************************)
(* The normalizer on its own: normalize applied to every string of at most *)
(* MaxLen units of Alphabet, and applied again to its result.              *)
(***************************************************************************)
\* A I b i ! inverted-! 1 | @ 4 $ 5 0 3 7 2 . space tab newline
Alphabet ==
  {65, 73, 98, 105, 33, 161, 49, 124, 64, 52, 36, 53, 48, 51, 55, 50, 46, 32, 9, 10}

InitNorm ==
  /\ Loaded([TOXICITY_THRESHOLD |-> Undefined, TOXICITY_LABELS |-> Undefined,
             FOUL_CUSTOM_WORDS |-> Undefined, CORS_ALLOW_ORIGIN |-> Undefined])
  /\ modelPromise = 0
  /\ promises = <<>>
  /\ inflight = [i \in Slots |-> Idle]
  /\ res = NoResponse
  /\ nin \in UNION {[1 .. n -> Alphabet] : n \in 0 .. MaxLen}
  /\ nout = <<>>
  /\ nout2 = <<>>
  /\ npc = 0

NormalizeOnce ==
  /\ npc = 0
  /\ nout' = normalize(nin)
  /\ npc' = 1
  /\ UNCHANGED <<configVars, handlerVars, nin, nout2>>

NormalizeAgain ==
  /\ npc = 1
  /\ nout2' = normalize(nout)
  /\ npc' = 2
  /\ UNCHANGED <<configVars, handlerVars, nin, nout>>

NextNorm == NormalizeOnce \/ NormalizeAgain

SpecNorm == InitNorm /\ [][NextNorm]_vars

(***************************************************************************)
(* Properties.                                                             *)
(***************************************************************************)
AnsweredPost == res.status # 0 /\ res.req.method = "POST"

\* text is a non-empty string
ValidText(body) == body.present /\ body.text.t = "string" /\ body.text.s # <<>>

\* fromUser and botName are non-empty strings and the lowercased fromUser
\* contains the lowercased botName
SelfCondition(body) ==
  /\ body.fromUser.t = "string" /\ body.fromUser.s # <<>>
  /\ body.botName.t = "string" /\ body.botName.s # <<>>
  /\ Includes(ToLowerCase(body.fromUser.s), ToLowerCase(body.botName.s))

\* the normal-success response: a verdict with its reasons
NormalSuccess == res.status = 200 /\ DOMAIN res.body = {"foul", "input", "norm", "reasons"}

SkippedBody == [foul |-> FALSE, skipped |-> TRUE, reason |-> "self_message"]

\* some prediction for a configured label has a raw toxic-class score >= THRESH
RawHit ==
  \E k \in 1 .. Len(res.preds) :
    LET p == res.preds[k]
        raw == IF p.has THEN p.prob ELSE 0
    IN /\ \E j \in 1 .. Len(LABELS) : LABELS[j] = p.label
       /\ ~THRESH.nan
       /\ raw >= THRESH.v

\* C1: every POST that reaches detection and is classified successfully gets
\* the normal-success response, and its foul is true iff the lexicon check on
\* the normalized text is true or a prediction whose label is in LABELS has a
\* raw toxic-class score >= THRESH (equal counts, other labels never count).
C1_FoulIffLexiconOrHit ==
  (AnsweredPost /\ res.calls.outcome = "classified") =>
    /\ ValidText(res.req.body)
    /\ ~SelfCondition(res.req.body)
    /\ NormalSuccess
    /\ res.body.foul = (leoCheck(normalize(res.req.body.text.s)) \/ RawHit)

\* C1 witness: a verdict foul = TRUE that rests only on a configured label
\* whose score equals the threshold, next to a label outside LABELS.
C1_Witness ==
  /\ AnsweredPost /\ NormalSuccess
  /\ res.body.foul
  /\ ~res.body.reasons.lexiconProfanity
  /\ ~THRESH.nan /\ Len(LABELS) = 1
  /\ \E k \in 1 .. Len(res.preds) :
       res.preds[k].label = Insult /\ res.preds[k].has /\ res.preds[k].prob >= THRESH.v
  /\ \A k \in 1 .. Len(res.preds) :
       ListIncludes(LABELS, res.preds[k].label) =>
         res.preds[k].has /\ res.preds[k].prob = THRESH.v

\* C2: a POST whose body is missing, or whose text is missing, not a string
\* or empty, is answered 400 {error: "text_required"} without a call of
\* the lexicon or of the classifier, and never waits for the classifier.
C2_TextRequired ==
  /\ (AnsweredPost /\ ~ValidText(res.req.body)) =>
       /\ res.status = 400
       /\ res.body = [error |-> "text_required"]
       /\ res.calls.leoCheck = 0
       /\ res.calls.getModel = 0
       /\ res.calls.classify = 0
  /\ \A i \in Slots : inflight[i].pc # "idle" => ValidText(inflight[i].req.body)

\* C2 witness: an empty text was answered 400.
C2_Witness ==
  /\ AnsweredPost
  /\ res.req.body.present
  /\ res.req.body.text = Str(<<>>)
  /\ res.status = 400

\* C3 as claimed: a POST that meets the self-message condition is answered
\* {foul: false, skipped: true, reason: "self_message"} whatever text is,
\* a missing or empty text included.
C3_SkippedWhateverText ==
  (AnsweredPost /\ SelfCondition(res.req.body)) =>
    res.status = 200 /\ res.body = SkippedBody

\* C3 amended: a POST whose text is a non-empty string and that meets the
\* self-message condition is answered 200 {foul: false, skipped: true,
\* reason: "self_message"} without any detection, and never waits for the
\* classifier.
C3_SkippedWhenTextValid ==
  /\ (AnsweredPost /\ ValidText(res.req.body) /\ SelfCondition(res.req.body)) =>
       /\ res.status = 200
       /\ res.body = SkippedBody
       /\ res.calls = NoCalls
  /\ \A i \in Slots : inflight[i].pc # "idle" => ~SelfCondition(inflight[i].req.body)

\* C3 witness: the bot's own message, with a text the lexicon flags and a
\* fromUser that differs from botName in case, was skipped.
C3_Witness ==
  /\ AnsweredPost
  /\ res.req.body.text = Str(LeetIdiot)
  /\ res.req.body.fromUser = Str(MyBot1)
  /\ res.req.body.botName = Str(MyBot)
  /\ res.body = SkippedBody

\* C4: when the classifier fails to load or to classify, the request is
\* answered 500 with exactly {error: "moderation_failed"}: no verdict, no
\* error detail.
C4_FailureIs500 ==
  (AnsweredPost /\ res.calls.outcome \in {"loadFailed", "classifyFailed"}) =>
    /\ res.status = 500
    /\ DOMAIN res.body = {"error"}
    /\ res.body.error = "moderation_failed"

\* C4 witness: classify failed for a text on which the lexicon check had
\* already returned true.
C4_Witness ==
  /\ AnsweredPost
  /\ res.calls.outcome = "classifyFailed"
  /\ res.calls.leoCheck = 1
  /\ leoCheck(normalize(res.req.body.text.s))
  /\ res.status = 500

\* C5: toxicity.load is called at most once; every invocation waiting for
\* the classifier waits for that one promise, and every invocation that got
\* a classifier got the one it resolved to.
C5_LoadedOnce ==
  /\ Len(promises) <= 1
  /\ \A i \in Slots :
       /\ inflight[i].pc # "idle" => inflight[i].promise = 1 /\ modelPromise = 1
       /\ inflight[i].pc = "awaitClassify" => inflight[i].model = 1

\* C5 witness: two invocations wait while the first construction is pending.
C5_Witness ==
  /\ Len(promises) = 1 /\ promises[1] = "pending"
  /\ \E i, j \in Slots :
       i # j /\ inflight[i].pc = "awaitModel" /\ inflight[j].pc = "awaitModel"

\* C6: normalize(normalize(x)) = normalize(x), and normalize("") = "".
C6_Idempotent ==
  /\ npc = 2 => nout2 = nout
  /\ (npc >= 1 /\ nin = <<>>) => nout = <<>>

\* C6 witness: normalize was applied twice to a string it changes into a
\* non-empty string with whitespace inside.
C6_Witness ==
  /\ npc = 2
  /\ nout # nin
  /\ \E k \in 1 .. Len(nout) : nout[k] \in WhiteSpace

\* C7 as claimed: "You are such an idiot!!!" with "idiot" in the lexicon is
\* answered lexiconProfanity true and foul true, whatever the scores.
C7_ScenarioA ==
  (AnsweredPost /\ NormalSuccess /\ res.req.body.text = Str(ScenarioA)
     /\ Idiot \in wordList) =>
    res.body.reasons.lexiconProfanity /\ res.body.foul

\* C8 as claimed: a TOXICITY_THRESHOLD that is set and is not a number
\* leaves the threshold at 0.85: reasons.threshold is 0.85 and a configured
\* label with a score of 0.85 or more gives foul.
C8_ThresholdFallback ==
  (AnsweredPost /\ NormalSuccess /\ Truthy(env.TOXICITY_THRESHOLD)
     /\ StringToNumber(env.TOXICITY_THRESHOLD.s).nan) =>
    /\ res.body.reasons.threshold = Num(85000)
    /\ (\E k \in 1 .. Len(res.preds) :
          /\ ListIncludes(LABELS, res.preds[k].label)
          /\ res.preds[k].has
          /\ res.preds[k].prob >= 85000)
         => res.body.foul

\* C9 as claimed: in a normal-success response foul equals
\* lexiconProfanity or some label of reasons.labels whose reported (rounded)
\* score is >= reasons.threshold.
C9_VerdictFromResponse ==
  (AnsweredPost /\ NormalSuccess) =>
    res.body.foul =
      (\/ res.body.reasons.lexiconProfanity
       \/ \E k \in 1 .. Len(res.body.reasons.labels) :
            LET l == res.body.reasons.labels[k]
            IN /\ l \in DOMAIN res.body.reasons.toxicityScores
               /\ GEq(res.body.reasons.toxicityScores[l], res.body.reasons.threshold))

LoadHasFailed == modelPromise # 0 /\ promises[modelPromise] = "rejected"

\* C10: once the first construction has failed, the rejected promise stays
\* cached and no construction is started again, and every POST with a valid
\* text that is not a self-message is answered 500 {error: "moderation_failed"}.
C10_FailureIsCached ==
  /\ [](LoadHasFailed =>
          ((AnsweredPost /\ ValidText(res.req.body) /\ ~SelfCondition(res.req.body)) =>
             res.status = 500 /\ res.body = [error |-> "moderation_failed"]))
  /\ [][LoadHasFailed =>
          /\ promises' = promises
          /\ modelPromise' = modelPromise
          /\ \A i \in Slots :
               (inflight[i].pc # "idle" /\ inflight'[i].pc = "idle") =>
                 res'.status = 500]_vars

\* C10 witness: a load failure has been answered 500 and every slot holds
\* a further invocation waiting for the same rejected promise, so at least
\* one of them arrived after that answer.
C10_Witness ==
  /\ LoadHasFailed
  /\ res.status = 500
  /\ res.calls.outcome = "loadFailed"
  /\ \A i \in Slots : inflight[i].pc = "awaitModel"

=============================================================================
